---------------------------- MODULE Spec2Model ----------------------------
(***************************************************************************)
(* Dataset assembly of TTS/tts/datasets/__init__.py: split_dataset,        *)
(* add_extra_keys, load_tts_samples and the side-file loaders.             *)
(*                                                                         *)
(* Strings that the code takes apart (speaker names, dataset names, the    *)
(* paths of an attention file) are sequences of one-character strings.     *)
(* A Python None, and a key that a sample dict does not hold, is the empty *)
(* sequence; an optional integer n is <<n>>.  A float is a pair            *)
(* <<numerator, denominator>>.                                             *)
(***************************************************************************)
EXTENDS Integers, Sequences, FiniteSets, TLC

VARIABLES
    \* split_dataset: parameters and locals
    items,               \* the list split_dataset shuffles and consumes
    items_eval,          \* the evaluation list
    speaker_counter,     \* Counter(speakers) of the multi-speaker branch
    eval_split_size,     \* parameter, then the integer target <<n, 1>>
    eval_split_max_size, \* parameter: None or an integer
    is_multi_speaker,
    item_idx,            \* last np.random.randint result (0-based), None before
    pc,                  \* position inside split_dataset
    \* the caller of split_dataset and numpy's global generator
    orig,                \* the list as it was handed to split_dataset
    rng,                 \* state of np.random
    run,                 \* which of the two calls on the same input is running
    first,               \* what the first call returned
    \* add_extra_keys called on its own
    metadata,            \* the list add_extra_keys mutates
    key_args,            \* its language and dataset_name arguments
    key_calls,           \* how many times it ran on metadata
    key_first,           \* metadata after the first call
    \* load_tts_samples
    datasets,            \* the dataset descriptors with what their files hold
    load_args,           \* eval_split, eval_split_max_size, eval_split_size
    d,                   \* index of the dataset of the current iteration
    lpc,                 \* position inside load_tts_samples
    meta_data_train,
    meta_data_eval,
    meta_data_train_all,
    meta_data_eval_all

split_vars == <<items, items_eval, speaker_counter, eval_split_size,
                eval_split_max_size, is_multi_speaker, item_idx, pc>>
caller_vars == <<orig, rng, run, first>>
key_vars == <<metadata, key_args, key_calls, key_first>>
load_vars == <<datasets, load_args, d, lpc, meta_data_train, meta_data_eval,
               meta_data_train_all, meta_data_eval_all>>
vars == <<split_vars, caller_vars, key_vars, load_vars>>

-----------------------------------------------------------------------------
(* Bounds of the model                                                     *)

MaxItems == 3       \* longest list handed to split_dataset on its own
MaxKeyItems == 2    \* longest list handed to add_extra_keys on its own
MaxDatasets == 2    \* longest list of datasets handed to load_tts_samples
RngMod == 16        \* number of states of the stand-in generator

-----------------------------------------------------------------------------
(* Values                                                                  *)

None == <<>>

Str(c) == <<c>>

Range(s) == {s[i] : i \in 1..Len(s)}

Min(a, b) == IF a < b THEN a ELSE b

\* Python truthiness of an optional integer: None and 0 are false
Truthy(m) == m # None /\ m[1] # 0

\* int(q) of a non-negative float q
ToInt(q) == q[1] \div q[2]

\* q > 1
GreaterThanOne(q) == q[1] > q[2]

\* int(n * q) for a list length n
IntOfProduct(n, q) == (n * q[1]) \div q[2]

\* A sample record as a formatter returns it; id stands for the identity of
\* the dict object.
Sample(id, audio, root, spk, lang, utt) ==
    [id |-> id, audio_file |-> audio, root_path |-> root, speaker_name |-> spk,
     language |-> lang, utt_name |-> utt, audio_unique_name |-> None,
     duration |-> None, pitch |-> None, alignment_file |-> None]

-----------------------------------------------------------------------------
(* split_dataset                                                           *)

SpeakersOf(list) == {list[i].speaker_name : i \in 1..Len(list)}

CountOf(list, spk) == Cardinality({i \in 1..Len(list) : list[i].speaker_name = spk})

\* Counter(speakers)
Counter(list) == [spk \in SpeakersOf(list) |-> CountOf(list, spk)]

\* the integer target of lines 29-35
TargetSizeNoCap(n, size, max) ==
    IF GreaterThanOne(size) THEN ToInt(size) ELSE IntOfProduct(n, size)
TargetSize(n, size, max) ==
    IF GreaterThanOne(size) THEN ToInt(size)
    ELSE IF Truthy(max) THEN Min(max[1], IntOfProduct(n, size))
    ELSE IntOfProduct(n, size)

\* lines 27-41: speaker test, target size, the assertion
SplitSize ==
    /\ pc = "start"
    /\ is_multi_speaker' = (Cardinality(SpeakersOf(items)) > 1)
    /\ eval_split_size' = <<TargetSize(Len(items), eval_split_size, eval_split_max_size), 1>>
    /\ pc' = IF ToInt(eval_split_size') > 0 THEN "seed" ELSE "assert_failed"
    /\ UNCHANGED <<items, items_eval, speaker_counter, eval_split_max_size, item_idx>>

SeedValue == 0

\* np.random.seed(0)
SeededNoReseed(r) == r
Seeded(r) == SeedValue

Seed ==
    /\ pc = "seed"
    /\ rng' = Seeded(rng)
    /\ pc' = "shuffle"
    /\ UNCHANGED <<items, items_eval, speaker_counter, eval_split_size,
                   eval_split_max_size, is_multi_speaker, item_idx>>

Perms(n) == {p \in [1..n -> 1..n] : \A i, j \in 1..n : p[i] = p[j] => i = j}

Permuted(list, p) == [i \in 1..Len(list) |-> list[p[i]]]

\* np.random.shuffle(items) leaving the list as shuffled
ShuffleTo(shuffled) ==
    /\ pc = "shuffle"
    /\ items' = shuffled
    /\ pc' = "branch"
    /\ UNCHANGED <<items_eval, speaker_counter, eval_split_size,
                   eval_split_max_size, is_multi_speaker, item_idx>>

\* lines 44-47
MultiInit ==
    /\ pc = "branch"
    /\ is_multi_speaker
    /\ items_eval' = <<>>
    /\ speaker_counter' = Counter(items)
    /\ pc' = "loop"
    /\ UNCHANGED <<items, eval_split_size, eval_split_max_size, is_multi_speaker, item_idx>>

\* line 48
LoopCond(n, target) == n < target

\* line 51
CanRemoveLast(count) == count > 0
CanRemove(count) == count > 1

\* line 54: del items[item_idx], item_idx 0-based
DelItemKeeps(list, idx) == list
DelItem(list, idx) == SubSeq(list, 1, idx) \o SubSeq(list, idx + 2, Len(list))

\* lines 48-54, one iteration with np.random.randint(0, len(items)) = idx;
\* randint raises ValueError when the range 0..len(items)-1 is empty
DrawAt(idx) ==
    /\ pc = "loop"
    /\ LoopCond(Len(items_eval), ToInt(eval_split_size))
    /\ IF Len(items) = 0
       THEN /\ idx = 0
            /\ pc' = "value_error"
            /\ UNCHANGED <<item_idx, items_eval, speaker_counter, items>>
       ELSE /\ idx \in 0..(Len(items) - 1)
            /\ item_idx' = <<idx>>
            /\ pc' = pc
            /\ LET item == items[idx + 1]
                   speaker_to_be_removed == item.speaker_name
               IN IF CanRemove(speaker_counter[speaker_to_be_removed])
                  THEN /\ items_eval' = Append(items_eval, item)
                       /\ speaker_counter' =
                             [speaker_counter EXCEPT ![speaker_to_be_removed] = @ - 1]
                       /\ items' = DelItem(items, idx)
                  ELSE UNCHANGED <<items_eval, speaker_counter, items>>
    /\ UNCHANGED <<eval_split_size, eval_split_max_size, is_multi_speaker>>

\* lines 48 and 55: the loop condition fails, return items_eval, items
LoopExit ==
    /\ pc = "loop"
    /\ ~LoopCond(Len(items_eval), ToInt(eval_split_size))
    /\ pc' = "done"
    /\ UNCHANGED <<items, items_eval, speaker_counter, eval_split_size,
                   eval_split_max_size, is_multi_speaker, item_idx>>

\* Python slices items[:n] and items[n:] for n >= 0
SliceTo(list, n) == SubSeq(list, 1, Min(n, Len(list)))
SliceFrom(list, n) == SubSeq(list, Min(n, Len(list)) + 1, Len(list))

\* line 56: the returned pair is kept in items_eval and items
SingleReturn ==
    /\ pc = "branch"
    /\ ~is_multi_speaker
    /\ items_eval' = SliceTo(items, ToInt(eval_split_size))
    /\ items' = SliceFrom(items, ToInt(eval_split_size))
    /\ pc' = "done"
    /\ UNCHANGED <<speaker_counter, eval_split_size, eval_split_max_size,
                   is_multi_speaker, item_idx>>

-----------------------------------------------------------------------------
(* numpy's global generator.  The code relies on one thing only: a draw is *)
(* a function of the generator's state.  A full-period linear congruential *)
(* generator stands in for the Mersenne twister.                           *)

RngNext(s) == (5 * s + 3) % RngMod

\* np.random.randint(0, n) from the state s reached by the draw
RngIndex(s, n) == s % n

\* np.random.shuffle: for i = n-1 down to 1, swap x[i] and x[randint(0, i+1)]
Swapped(list, a, b) == [list EXCEPT ![a] = list[b], ![b] = list[a]]

RECURSIVE RngShuffleFrom(_, _, _)
RngShuffleFrom(list, i, s) ==
    IF i < 1 THEN [list |-> list, rng |-> s]
    ELSE LET s1 == RngNext(s)
             j == RngIndex(s1, i + 1)
         IN RngShuffleFrom(Swapped(list, i + 1, j + 1), i - 1, s1)

RngShuffle(list, s) == RngShuffleFrom(list, Len(list) - 1, s)

-----------------------------------------------------------------------------
(* Inputs of split_dataset called on its own                               *)

Speakers == {Str("a"), Str("b"), Str("c")}

EvalSplitSizes == {<<1, 2>>, <<1, 1>>, <<3, 2>>, <<5, 2>>}

MaxSizes == {None, <<0>>, <<1>>}

\* the lists of up to MaxItems samples that differ in their speakers
ItemLists ==
    UNION {{[i \in 1..n |-> Sample(<<0, i>>, None, None, f[i], None, None)] :
              f \in [1..n -> Speakers]} : n \in 0..MaxItems}

KeyIdle ==
    /\ metadata = <<>>
    /\ key_args = None
    /\ key_calls = 0
    /\ key_first = None

LoadIdle ==
    /\ datasets = <<>>
    /\ load_args = None
    /\ d = 0
    /\ lpc = "idle"
    /\ meta_data_train = None
    /\ meta_data_eval = None
    /\ meta_data_train_all = <<>>
    /\ meta_data_eval_all = <<>>

\* the state in which split_dataset(list, max, size) is entered
SplitEntry(list, max, size) ==
    /\ items = list
    /\ eval_split_max_size = max
    /\ eval_split_size = size
    /\ items_eval = <<>>
    /\ speaker_counter = <<>>
    /\ is_multi_speaker = FALSE
    /\ item_idx = None
    /\ pc = "start"

InitSplit ==
    /\ \E list \in ItemLists, max \in MaxSizes, size \in EvalSplitSizes :
          /\ SplitEntry(list, max, size)
          /\ orig = [items |-> list, eval_split_max_size |-> max, eval_split_size |-> size]
    /\ rng = SeedValue
    /\ run = 1
    /\ first = None
    /\ KeyIdle
    /\ LoadIdle

\* split_dataset under every outcome of the shuffle and of each draw
SizeStep == SplitSize /\ UNCHANGED <<caller_vars, key_vars, load_vars>>
SeedStep == Seed /\ UNCHANGED <<orig, run, first, key_vars, load_vars>>
ShuffleAny ==
    /\ \E p \in Perms(Len(items)) : ShuffleTo(Permuted(items, p))
    /\ UNCHANGED <<caller_vars, key_vars, load_vars>>
MultiInitStep == MultiInit /\ UNCHANGED <<caller_vars, key_vars, load_vars>>
DrawAny(idx) == DrawAt(idx) /\ UNCHANGED <<caller_vars, key_vars, load_vars>>
LoopExitStep == LoopExit /\ UNCHANGED <<caller_vars, key_vars, load_vars>>
SingleReturnStep == SingleReturn /\ UNCHANGED <<caller_vars, key_vars, load_vars>>

DrawRange == 0..(MaxItems - 1)

NextSplit ==
    \/ SizeStep
    \/ SeedStep
    \/ ShuffleAny
    \/ MultiInitStep
    \/ \E idx \in DrawRange : DrawAny(idx)
    \/ LoopExitStep
    \/ SingleReturnStep

SpecSplit == InitSplit /\ [][NextSplit]_vars

\* The multi-speaker branch alone: the lists that hold more than one speaker
\* and the absolute sizes that set the target to 1 and to 2.
MultiLists == {list \in ItemLists : Cardinality(SpeakersOf(list)) > 1}

LoopSizes == {<<3, 2>>, <<5, 2>>}

InitMulti ==
    /\ \E list \in MultiLists, size \in LoopSizes :
          /\ SplitEntry(list, None, size)
          /\ orig = [items |-> list, eval_split_max_size |-> None, eval_split_size |-> size]
    /\ rng = SeedValue
    /\ run = 1
    /\ first = None
    /\ KeyIdle
    /\ LoadIdle

NextMulti ==
    \/ SizeStep
    \/ SeedStep
    \/ ShuffleAny
    \/ MultiInitStep
    \/ \E idx \in DrawRange : DrawAny(idx)
    \/ LoopExitStep

\* the statements run on, and every index of the pool keeps being drawn
SpecMultiFair ==
    /\ InitMulti
    /\ [][NextMulti]_vars
    /\ WF_vars(NextMulti)
    /\ \A idx \in DrawRange : WF_vars(DrawAny(idx))

-----------------------------------------------------------------------------
(* Claims about split_dataset under every shuffle and every draw           *)

OrigCount == Len(orig.items)
OrigSpeakers == SpeakersOf(orig.items)
OrigMulti == Cardinality(OrigSpeakers) > 1
Movable == OrigCount - Cardinality(OrigSpeakers)

\* C1 Speaker floor: when the input holds more than one speaker, every
\* speaker of the input has a sample among the remaining (training) items,
\* in every state of the call and in what it returns.
C1_SpeakerFloor ==
    OrigMulti => \A spk \in OrigSpeakers : \E i \in 1..Len(items) : items[i].speaker_name = spk

\* a multi-speaker call has returned, samples were moved to the evaluation
\* list and some speaker is down to the one sample that had to stay
C1_Witness ==
    /\ pc = "done"
    /\ OrigMulti
    /\ Len(items_eval) >= 1
    /\ \E spk \in OrigSpeakers : CountOf(orig.items, spk) > 1 /\ CountOf(items, spk) = 1

\* the target as the claim words it: the cap applies whenever
\* eval_split_max_size is set
ClaimTarget ==
    IF GreaterThanOne(orig.eval_split_size) THEN ToInt(orig.eval_split_size)
    ELSE IF orig.eval_split_max_size # None
         THEN Min(orig.eval_split_max_size[1], IntOfProduct(OrigCount, orig.eval_split_size))
         ELSE IntOfProduct(OrigCount, orig.eval_split_size)

ClaimFeasible ==
    /\ ClaimTarget >= 1
    /\ IF OrigMulti THEN ClaimTarget <= Movable ELSE ClaimTarget <= OrigCount

\* C2 Split size: whenever split_dataset returns and the target is
\* feasible, the evaluation list has exactly target elements.
C2_SplitSize ==
    (pc = "done" /\ ClaimFeasible) => Len(items_eval) = ClaimTarget

\* a multi-speaker call with a proportional size and a cap has returned
C2_Witness ==
    /\ pc = "done"
    /\ OrigMulti
    /\ ClaimFeasible
    /\ ~GreaterThanOne(orig.eval_split_size)
    /\ orig.eval_split_max_size # None
    /\ Len(items_eval) = orig.eval_split_max_size[1]

\* C10 Split conservation: the evaluation list and the remaining items
\* together hold the samples of the input, each once, in every state; and
\* no index is drawn from an empty pool.
C10_Conservation ==
    /\ Len(items_eval) + Len(items) = OrigCount
    /\ Range(items_eval) \cup Range(items) = Range(orig.items)
    /\ Range(items_eval) \cap Range(items) = {}
    /\ pc # "value_error"

\* inside the sampling loop, after a draw that moved a sample
C10_Witness ==
    /\ pc = "loop"
    /\ item_idx # None
    /\ Len(items_eval) >= 1
    /\ Len(items) >= 2

\* C7 Multi-speaker termination: with target T, N items and S speakers the
\* loop ends with T evaluation samples when T <= N - S, and when T > N - S
\* it stays in the loop for ever: no step leaves it, neither a return nor
\* an error.
C7_Termination ==
    /\ [](pc = "loop" /\ ToInt(eval_split_size) <= Movable
            => <>(pc = "done" /\ Len(items_eval) = ToInt(eval_split_size)))
    /\ [][(pc = "loop" /\ ToInt(eval_split_size) > Movable) => pc' = "loop"]_vars

\* an infeasible call spinning in the loop after every movable sample moved
C7_Witness ==
    /\ pc = "loop"
    /\ ToInt(eval_split_size) > Movable
    /\ Movable >= 1
    /\ Len(items_eval) = Movable
    /\ item_idx # None

-----------------------------------------------------------------------------
(* Two calls of split_dataset on the same input, the draws taken from the  *)
(* generator, whose state at the first call is whatever earlier code left  *)

InitDet ==
    /\ \E list \in ItemLists, max \in MaxSizes, size \in EvalSplitSizes :
          /\ SplitEntry(list, max, size)
          /\ orig = [items |-> list, eval_split_max_size |-> max, eval_split_size |-> size]
    /\ rng \in 0..(RngMod - 1)
    /\ run = 1
    /\ first = None
    /\ KeyIdle
    /\ LoadIdle

\* line 43 with the generator
ShuffleRng ==
    /\ LET r == RngShuffle(items, rng)
       IN /\ ShuffleTo(r.list)
          /\ rng' = r.rng
    /\ UNCHANGED <<orig, run, first, key_vars, load_vars>>

\* line 49 with the generator
DrawRng ==
    /\ rng' = RngNext(rng)
    /\ DrawAt(IF Len(items) = 0 THEN 0 ELSE RngIndex(rng', Len(items)))
    /\ UNCHANGED <<orig, run, first, key_vars, load_vars>>

\* the caller keeps the result and calls again with the same arguments
Rerun ==
    /\ pc = "done"
    /\ run = 1
    /\ first' = <<items_eval, items>>
    /\ run' = 2
    /\ items' = orig.items
    /\ eval_split_max_size' = orig.eval_split_max_size
    /\ eval_split_size' = orig.eval_split_size
    /\ items_eval' = <<>>
    /\ speaker_counter' = <<>>
    /\ is_multi_speaker' = FALSE
    /\ item_idx' = None
    /\ pc' = "start"
    /\ UNCHANGED <<orig, rng, key_vars, load_vars>>

NextDet ==
    \/ SizeStep
    \/ SeedStep
    \/ ShuffleRng
    \/ MultiInitStep
    \/ DrawRng
    \/ LoopExitStep
    \/ SingleReturnStep
    \/ Rerun

SpecDet == InitDet /\ [][NextDet]_vars

\* C3 Determinism: the second call on the same items in the same order with
\* the same sizes returns the evaluation list and the training list of the
\* first call, whatever state the generator was in before either call.
C3_Determinism ==
    (run = 2 /\ pc = "done") => (items_eval = first[1] /\ items = first[2])

\* the second multi-speaker call has returned with samples in its evaluation
\* list and the list reordered
C3_Witness ==
    /\ run = 2
    /\ pc = "done"
    /\ OrigMulti
    /\ Len(items_eval) >= 1
    /\ items_eval \o items # orig.items

-----------------------------------------------------------------------------
(* add_extra_keys.  A path is the sequence of its components, each a       *)
(* sequence of characters; audio files and roots are absolute.             *)

StartsWith(s, prefix) ==
    Len(s) >= Len(prefix) /\ SubSeq(s, 1, Len(prefix)) = prefix

\* line 66: the speaker name is to be prefixed
NeedsPrefixNoStartsWith(speaker_name, dataset_name) ==
    dataset_name # <<>> /\ speaker_name # dataset_name
NeedsPrefix(speaker_name, dataset_name) ==
    /\ dataset_name # <<>>
    /\ speaker_name # dataset_name
    /\ ~StartsWith(speaker_name, dataset_name \o <<"_">>)

RECURSIVE CommonPrefixLen(_, _)
CommonPrefixLen(a, b) ==
    IF a = <<>> \/ b = <<>> \/ a[1] # b[1] THEN 0
    ELSE 1 + CommonPrefixLen(SubSeq(a, 2, Len(a)), SubSeq(b, 2, Len(b)))

\* os.path.relpath(path, start) of two absolute normalised paths
RelPath(path, start) ==
    LET common == CommonPrefixLen(path, start)
        rel == [i \in 1..(Len(start) - common) |-> <<".", ".">>]
                 \o SubSeq(path, common + 1, Len(path))
    IN IF rel = <<>> THEN <<Str(".")>> ELSE rel

\* position of the dot os.path.splitext cuts a file name at, 0 for none: the
\* last dot, provided a character other than a dot comes before it
ExtDot(name) ==
    LET dots == {i \in 1..Len(name) : name[i] = "."}
        last == CHOOSE i \in dots : \A j \in dots : j <= i
    IN IF dots = {} THEN 0
       ELSE IF \E k \in 1..(last - 1) : name[k] # "." THEN last ELSE 0

\* os.path.splitext(path)[0]
SplitExtRoot(path) ==
    LET name == path[Len(path)]
        dot == ExtDot(name)
    IN IF dot = 0 THEN path
       ELSE [path EXCEPT ![Len(path)] = SubSeq(name, 1, dot - 1)]

\* the path as one string
RECURSIVE JoinPath(_)
JoinPath(path) ==
    IF Len(path) = 1 THEN path[1]
    ELSE path[1] \o <<"/">> \o JoinPath(SubSeq(path, 2, Len(path)))

\* lines 70-71
AudioUniqueName(item, dataset_name) ==
    dataset_name \o <<"#">> \o JoinPath(SplitExtRoot(RelPath(item.audio_file, item.root_path)))

\* lines 62-72 for one item
WithExtraKeys(item, language, dataset_name) ==
    [item EXCEPT
       !.language = IF @ = <<>> THEN language ELSE @,
       !.speaker_name = IF NeedsPrefix(@, dataset_name)
                        THEN dataset_name \o <<"_">> \o @ ELSE @,
       !.audio_unique_name = AudioUniqueName(item, dataset_name)]

\* add_extra_keys(metadata, language, dataset_name): the list it returns
AddExtraKeys(list, language, dataset_name) ==
    [i \in 1..Len(list) |-> WithExtraKeys(list[i], language, dataset_name)]

SplitIdle ==
    /\ items = <<>>
    /\ items_eval = <<>>
    /\ speaker_counter = <<>>
    /\ eval_split_size = None
    /\ eval_split_max_size = None
    /\ is_multi_speaker = FALSE
    /\ item_idx = None
    /\ pc = "idle"

CallerIdle ==
    /\ orig = None
    /\ rng = SeedValue
    /\ run = 1
    /\ first = None

KeySpeakers == {Str("a"), Str("d"), <<"d", "_">>, <<"d", "a">>, <<"d", "_", "a">>,
                <<"d", "_", "d", "_", "a">>}

KeyLanguages == {<<>>, Str("e")}

KeyDatasetNames == {<<>>, Str("d"), <<"d", "_">>}

KeyAudioFile == <<Str("r"), <<"a", ".", "w">>>>

KeyRoot == <<Str("r")>>

KeySamples ==
    {Sample(<<0, 1>>, KeyAudioFile, KeyRoot, spk, lang, None) :
        spk \in KeySpeakers, lang \in KeyLanguages}

KeyLists == UNION {[1..n -> KeySamples] : n \in 1..MaxKeyItems}

InitKeys ==
    /\ metadata \in KeyLists
    /\ \E language \in KeyLanguages, dataset_name \in KeyDatasetNames :
          key_args = [language |-> language, dataset_name |-> dataset_name,
                      given |-> metadata]
    /\ key_calls = 0
    /\ key_first = None
    /\ SplitIdle
    /\ CallerIdle
    /\ LoadIdle

\* a call of add_extra_keys on the list; the caller keeps a copy of what the
\* first call left
KeyCall ==
    /\ key_calls < 2
    /\ metadata' = AddExtraKeys(metadata, key_args.language, key_args.dataset_name)
    /\ key_calls' = key_calls + 1
    /\ key_first' = IF key_calls = 0 THEN metadata' ELSE key_first
    /\ UNCHANGED <<key_args, split_vars, caller_vars, load_vars>>

NextKeys == KeyCall

SpecKeys == InitKeys /\ [][NextKeys]_vars

\* C5 Idempotent renaming: after the second call with the same language and
\* dataset_name each sample has the speaker_name, the language and the
\* audio_unique_name the first call left; the prefix is not added again.
C5_Idempotent ==
    key_calls = 2 =>
        \A i \in 1..Len(metadata) :
            /\ metadata[i].speaker_name = key_first[i].speaker_name
            /\ metadata[i].language = key_first[i].language
            /\ metadata[i].audio_unique_name = key_first[i].audio_unique_name

\* after two calls: one sample was prefixed by the first call, another was
\* left alone because its name already began with the prefix
C5_Witness ==
    /\ key_calls = 2
    /\ \E i \in 1..Len(metadata) :
          key_first[i].speaker_name = key_args.dataset_name \o <<"_">> \o key_args.given[i].speaker_name
    /\ \E i \in 1..Len(metadata) :
          /\ key_args.dataset_name # <<>>
          /\ StartsWith(key_args.given[i].speaker_name, key_args.dataset_name \o <<"_">>)
          /\ key_first[i].speaker_name = key_args.given[i].speaker_name

-----------------------------------------------------------------------------
(* The side-file loaders.  A file is the sequence of its lines, a line the *)
(* pair of its two fields; a duration field is a sequence of integers, a   *)
(* pitch field a sequence of floats, an attention field a string that      *)
(* still carries the end of the line.                                      *)

Keys(lines) == {lines[i][1] : i \in 1..Len(lines)}

\* the mapping a loop of meta_data[key] = value, or dict(pairs), builds: the
\* last line of a key wins
DictOf(lines) ==
    [k \in Keys(lines) |->
        LET last == CHOOSE i \in 1..Len(lines) :
                       /\ lines[i][1] = k
                       /\ \A j \in 1..Len(lines) : lines[j][1] = k => j <= i
        IN lines[last][2]]

\* load_duration_meta_data: np.array of the integers of each line
LoadDurationMetaData(lines) == DictOf(lines)

\* load_pitch_meta_data: the floats of each line stored as int32, which
\* drops the fraction
LoadPitchMetaData(lines) ==
    DictOf([i \in 1..Len(lines) |->
              <<lines[i][1], [k \in 1..Len(lines[i][2]) |-> ToInt(lines[i][2][k])]>>])

\* dict(load_attention_mask_meta_data(fn))
LoadAttentionMaskMetaData(lines) == DictOf(lines)

Whitespace == {" ", "\n"}

\* str.strip()
RECURSIVE Strip(_)
Strip(str) ==
    IF str = <<>> THEN str
    ELSE IF str[1] \in Whitespace THEN Strip(SubSeq(str, 2, Len(str)))
    ELSE IF str[Len(str)] \in Whitespace THEN Strip(SubSeq(str, 1, Len(str) - 1))
    ELSE str

\* an absolute path as the string a sample holds
PathString(path) == <<"/">> \o JoinPath(path)

-----------------------------------------------------------------------------
(* load_tts_samples                                                        *)

\* formatter(root_path, meta_file, ...): fresh sample dicts for the rows of
\* a metadata file of dataset number dn
Formatter(dataset, dn, part, rows) ==
    [k \in 1..Len(rows) |->
        Sample(<<dn, part, k>>, rows[k].audio_file, dataset.path,
               rows[k].speaker_name, rows[k].language, rows[k].utt_name)]

\* line 142
EvalSizePerDataset(max, n) == IF Truthy(max) THEN <<max[1] \div n>> ELSE None

\* lines 157-159 and 162-164 over one list
DurationJoinedOrCleared(list, meta) ==
    [i \in 1..Len(list) |->
        [list[i] EXCEPT !.duration = IF list[i].utt_name \in DOMAIN meta
                                     THEN meta[list[i].utt_name] ELSE None]]
DurationJoined(list, meta) ==
    [i \in 1..Len(list) |->
        IF list[i].utt_name \in DOMAIN meta
        THEN [list[i] EXCEPT !.duration = meta[list[i].utt_name]]
        ELSE list[i]]

\* lines 176-178 and 181-183 over one list
PitchJoined(list, meta) ==
    [i \in 1..Len(list) |->
        IF list[i].utt_name \in DOMAIN meta
        THEN [list[i] EXCEPT !.pitch = meta[list[i].utt_name]]
        ELSE list[i]]

\* lines 200-204: attn_file of one sample, None when no key matches
AttnFileUttFirst(ins, meta) ==
    IF ins.utt_name \in DOMAIN meta THEN Strip(meta[ins.utt_name])
    ELSE IF PathString(ins.audio_file) \in DOMAIN meta
         THEN Strip(meta[PathString(ins.audio_file)])
         ELSE None
AttnFile(ins, meta) ==
    IF PathString(ins.audio_file) \in DOMAIN meta
    THEN Strip(meta[PathString(ins.audio_file)])
    ELSE IF ins.utt_name \in DOMAIN meta THEN Strip(meta[ins.utt_name])
         ELSE None

\* lines 197-209 and 212-224 over one list
AttnJoined(list, meta) ==
    [i \in 1..Len(list) |->
        LET attn_file == AttnFile(list[i], meta)
        IN IF attn_file # <<>>
           THEN [list[i] EXCEPT !.alignment_file = attn_file]
           ELSE list[i]]

Dataset == datasets[d]

\* lines 118-135: the training samples of the dataset, with their extra keys
LoadTrain ==
    /\ lpc = "train"
    /\ meta_data_train' =
          AddExtraKeys(Formatter(Dataset, d, "train", Dataset.meta_file_train),
                       Dataset.language, Dataset.dataset_name)
    /\ lpc' = IF Len(meta_data_train') > 0 THEN "eval" ELSE "assert_failed"
    /\ UNCHANGED <<datasets, load_args, d, meta_data_eval, meta_data_train_all,
                   meta_data_eval_all, split_vars, caller_vars, key_vars>>

\* lines 137-140, 144-145: the evaluation samples come from meta_file_val
EvalFromFile ==
    /\ lpc = "eval"
    /\ load_args.eval_split
    /\ Dataset.meta_file_val # None
    /\ meta_data_eval' =
          AddExtraKeys(Formatter(Dataset, d, "val", Dataset.meta_file_val[1]),
                       Dataset.language, Dataset.dataset_name)
    /\ meta_data_eval_all' = meta_data_eval_all \o meta_data_eval'
    /\ meta_data_train_all' = meta_data_train_all \o meta_data_train
    /\ lpc' = "dur"
    /\ UNCHANGED <<datasets, load_args, d, meta_data_train, split_vars, caller_vars, key_vars>>

\* lines 137, 145: no evaluation split
NoEval ==
    /\ lpc = "eval"
    /\ ~load_args.eval_split
    /\ meta_data_train_all' = meta_data_train_all \o meta_data_train
    /\ lpc' = "dur"
    /\ UNCHANGED <<datasets, load_args, d, meta_data_train, meta_data_eval,
                   meta_data_eval_all, split_vars, caller_vars, key_vars>>

\* lines 141-143: split_dataset is entered
CallSplit ==
    /\ lpc = "eval"
    /\ load_args.eval_split
    /\ Dataset.meta_file_val = None
    /\ items' = meta_data_train
    /\ eval_split_max_size' = EvalSizePerDataset(load_args.eval_split_max_size, Len(datasets))
    /\ eval_split_size' = load_args.eval_split_size
    /\ items_eval' = <<>>
    /\ speaker_counter' = <<>>
    /\ is_multi_speaker' = FALSE
    /\ item_idx' = None
    /\ pc' = "start"
    /\ lpc' = "split"
    /\ UNCHANGED <<datasets, load_args, d, meta_data_train, meta_data_eval,
                   meta_data_train_all, meta_data_eval_all, caller_vars, key_vars>>

\* lines 143-145: split_dataset has returned
SplitReturn ==
    /\ lpc = "split"
    /\ pc = "done"
    /\ meta_data_eval' = items_eval
    /\ meta_data_train' = items
    /\ meta_data_eval_all' = meta_data_eval_all \o items_eval
    /\ meta_data_train_all' = meta_data_train_all \o items
    /\ items' = <<>>
    /\ items_eval' = <<>>
    /\ speaker_counter' = <<>>
    /\ eval_split_size' = None
    /\ eval_split_max_size' = None
    /\ is_multi_speaker' = FALSE
    /\ item_idx' = None
    /\ pc' = "idle"
    /\ lpc' = "dur"
    /\ UNCHANGED <<datasets, load_args, d, caller_vars, key_vars>>

\* lines 147-164
JoinDur ==
    /\ lpc = "dur"
    /\ IF Dataset.meta_file_dur # None
       THEN LET meta_data == LoadDurationMetaData(Dataset.meta_file_dur[1])
            IN /\ meta_data_train_all' = DurationJoined(meta_data_train_all, meta_data)
               /\ meta_data_eval_all' =
                     IF meta_data_eval_all # <<>>
                     THEN DurationJoined(meta_data_eval_all, meta_data)
                     ELSE meta_data_eval_all
       ELSE UNCHANGED <<meta_data_train_all, meta_data_eval_all>>
    /\ lpc' = "pitch"
    /\ UNCHANGED <<datasets, load_args, d, meta_data_train, meta_data_eval,
                   split_vars, caller_vars, key_vars>>

\* lines 166-183
JoinPitch ==
    /\ lpc = "pitch"
    /\ IF Dataset.meta_file_pitch # None
       THEN LET meta_data == LoadPitchMetaData(Dataset.meta_file_pitch[1])
            IN /\ meta_data_train_all' = PitchJoined(meta_data_train_all, meta_data)
               /\ meta_data_eval_all' =
                     IF meta_data_eval_all # <<>>
                     THEN PitchJoined(meta_data_eval_all, meta_data)
                     ELSE meta_data_eval_all
       ELSE UNCHANGED <<meta_data_train_all, meta_data_eval_all>>
    /\ lpc' = "attn"
    /\ UNCHANGED <<datasets, load_args, d, meta_data_train, meta_data_eval,
                   split_vars, caller_vars, key_vars>>

\* lines 186-224
JoinAttn ==
    /\ lpc = "attn"
    /\ IF Dataset.meta_file_attn_mask # None
       THEN LET meta_data == LoadAttentionMaskMetaData(Dataset.meta_file_attn_mask[1])
            IN /\ meta_data_train_all' = AttnJoined(meta_data_train_all, meta_data)
               /\ meta_data_eval_all' =
                     IF meta_data_eval_all # <<>>
                     THEN AttnJoined(meta_data_eval_all, meta_data)
                     ELSE meta_data_eval_all
       ELSE UNCHANGED <<meta_data_train_all, meta_data_eval_all>>
    /\ lpc' = "next"
    /\ UNCHANGED <<datasets, load_args, d, meta_data_train, meta_data_eval,
                   split_vars, caller_vars, key_vars>>

\* lines 117, 227: on to the next dataset
NextDataset ==
    /\ lpc = "next"
    /\ d < Len(datasets)
    /\ d' = d + 1
    /\ lpc' = "train"
    /\ UNCHANGED <<datasets, load_args, meta_data_train, meta_data_eval,
                   meta_data_train_all, meta_data_eval_all, split_vars, caller_vars, key_vars>>

\* line 228
Return ==
    /\ lpc = "next"
    /\ d = Len(datasets)
    /\ lpc' = "returned"
    /\ UNCHANGED <<datasets, load_args, d, meta_data_train, meta_data_eval,
                   meta_data_train_all, meta_data_eval_all, split_vars, caller_vars, key_vars>>

-----------------------------------------------------------------------------
(* Inputs of load_tts_samples: dataset descriptors together with what      *)
(* their metadata files and side files hold                                *)

Row(audio, spk, utt) ==
    [audio_file |-> audio, speaker_name |-> spk, language |-> <<>>, utt_name |-> utt]

RootR == <<Str("r")>>
RootS == <<Str("s")>>
AW == <<"a", ".", "w">>
AF == <<"a", ".", "f">>
BW == <<"b", ".", "w">>
U == Str("u")
V == Str("v")
W == Str("w")

Descriptor(name, path, train, val, dur, pitch, attn) ==
    [dataset_name |-> name, path |-> path, language |-> Str("e"),
     meta_file_train |-> train, meta_file_val |-> val, meta_file_dur |-> dur,
     meta_file_pitch |-> pitch, meta_file_attn_mask |-> attn]

\* two files of one speaker that differ in the extension only; the
\* attention file keys the first by its wave file and by its utterance name
PairSet ==
    Descriptor(Str("d"), RootR,
               <<Row(RootR \o <<AW>>, Str("a"), U), Row(RootR \o <<AF>>, Str("a"), V)>>,
               None,
               <<<< <<U, <<9>>>>, <<U, <<1>>>>, <<W, <<4>>>> >>>>,
               None,
               <<<< <<PathString(RootR \o <<AW>>), <<"p", "\n">>>>,
                    <<U, <<"q", "\n">>>>,
                    <<V, <<" ", "\n">>>> >>>>)

\* three files of two speakers
TrioSet ==
    Descriptor(Str("d"), RootR,
               <<Row(RootR \o <<AW>>, Str("a"), U), Row(RootR \o <<BW>>, Str("a"), V),
                 Row(RootR \o <<AF>>, Str("b"), W)>>,
               None,
               <<<< <<U, <<2>>>>, <<V, <<3>>>> >>>>,
               <<<< <<U, <<<<3, 2>>>>>>, <<W, <<<<5, 2>>, <<1, 1>>>>>> >>>>,
               None)

\* a dataset with a validation file under another root
ValSet ==
    Descriptor(Str("x"), RootS,
               <<Row(RootS \o <<AW>>, Str("x"), V)>>,
               <<<<Row(RootS \o <<BW>>, Str("b"), U)>>>>,
               None,
               <<<< <<V, <<<<1, 2>>>>>> >>>>,
               <<<< <<U, <<" ", "q", "\n">>>>, <<W, <<"p">>>> >>>>)

\* no dataset name, no side file
PlainSet ==
    Descriptor(<<>>, RootR,
               <<Row(RootR \o <<AW>>, Str("a"), U), Row(RootR \o <<BW>>, Str("a"), W)>>,
               None, None, None, None)

\* three files of two speakers; the attention file gives one wave file a
\* path and another wave file an empty one
MaskSet ==
    Descriptor(Str("m"), RootR,
               <<Row(RootR \o <<AW>>, Str("a"), W), Row(RootR \o <<AF>>, Str("b"), U),
                 Row(RootR \o <<BW>>, Str("b"), U)>>,
               None,
               <<<< <<W, <<5>>>> >>>>,
               None,
               <<<< <<PathString(RootR \o <<AF>>), <<" ", "p", " ", "\n">>>>,
                    <<PathString(RootR \o <<BW>>), <<"\n">>>>,
                    <<U, <<"q">>>> >>>>)

\* a validation file and a duration and a pitch file for its utterance
ValDurSet ==
    Descriptor(Str("d"), RootR,
               <<Row(RootR \o <<BW>>, Str("a"), V)>>,
               <<<<Row(RootR \o <<AW>>, Str("a"), V), Row(RootR \o <<AF>>, Str("a"), U)>>>>,
               <<<< <<V, <<6>>>> >>>>,
               <<<< <<V, <<<<7, 2>>>>>> >>>>,
               None)

Catalogue == {PairSet, TrioSet, ValSet, PlainSet, MaskSet, ValDurSet}

DatasetLists == UNION {[1..n -> Catalogue] : n \in 1..MaxDatasets}

LoadArgs(eval_split, max, size) ==
    [eval_split |-> eval_split, eval_split_max_size |-> max, eval_split_size |-> size]

LoadArgSets ==
    {LoadArgs(TRUE, None, <<1, 2>>), LoadArgs(TRUE, <<1>>, <<1, 2>>),
     LoadArgs(TRUE, <<2>>, <<1, 1>>), LoadArgs(FALSE, None, <<1, 2>>)}

\* lines 113-117: the state at the head of the first iteration
InitLoad ==
    /\ datasets \in DatasetLists
    /\ load_args \in LoadArgSets
    /\ d = 1
    /\ lpc = "train"
    /\ meta_data_train = None
    /\ meta_data_eval = None
    /\ meta_data_train_all = <<>>
    /\ meta_data_eval_all = <<>>
    /\ SplitIdle
    /\ CallerIdle
    /\ KeyIdle

NextLoad ==
    \/ LoadTrain
    \/ EvalFromFile
    \/ NoEval
    \/ CallSplit
    \/ SizeStep
    \/ SeedStep
    \/ ShuffleAny
    \/ MultiInitStep
    \/ \E idx \in DrawRange : DrawAny(idx)
    \/ LoopExitStep
    \/ SingleReturnStep
    \/ SplitReturn
    \/ JoinDur
    \/ JoinPitch
    \/ JoinAttn
    \/ NextDataset
    \/ Return

SpecLoad == InitLoad /\ [][NextLoad]_vars

-----------------------------------------------------------------------------
(* Claims about load_tts_samples                                           *)

Accumulated == meta_data_train_all \o meta_data_eval_all

\* C4 Uniqueness: the audio_unique_name values of all samples that
\* load_tts_samples returns, train and eval lists together, are pairwise
\* distinct.
C4_Uniqueness ==
    lpc = "returned" =>
        \A i, j \in 1..Len(Accumulated) :
            i # j => Accumulated[i].audio_unique_name # Accumulated[j].audio_unique_name

EvalCountOf(j) ==
    Cardinality({i \in 1..Len(meta_data_eval_all) : meta_data_eval_all[i].id[1] = j})

\* C6 Evaluation cap: with eval_split, a proportional eval_split_size, a
\* positive eval_split_max_size and no meta_file_val, the evaluation samples
\* returned number at most eval_split_max_size, and those of each dataset at
\* most eval_split_max_size // len(datasets).
C6_EvalCap ==
    ( /\ lpc = "returned"
      /\ load_args.eval_split
      /\ ~GreaterThanOne(load_args.eval_split_size)
      /\ load_args.eval_split_max_size # None
      /\ load_args.eval_split_max_size[1] > 0
      /\ \A j \in 1..Len(datasets) : datasets[j].meta_file_val = None )
    => /\ Len(meta_data_eval_all) <= load_args.eval_split_max_size[1]
       /\ \A j \in 1..Len(datasets) :
             EvalCountOf(j) <= load_args.eval_split_max_size[1] \div Len(datasets)

\* the join of dataset j's duration (pitch) file has run
DurationDone(j) == j < d \/ (j = d /\ lpc \in {"pitch", "attn", "next", "returned"})
PitchDone(j) == j < d \/ (j = d /\ lpc \in {"attn", "next", "returned"})

Largest(S) == CHOOSE x \in S : \A y \in S : y <= x

\* the datasets, from the sample's own on, whose duration file has been
\* joined and holds the sample's utt_name
DurationHits(sample) ==
    {j \in sample.id[1]..Len(datasets) :
        /\ DurationDone(j)
        /\ datasets[j].meta_file_dur # None
        /\ sample.utt_name \in Keys(datasets[j].meta_file_dur[1])}

PitchHits(sample) ==
    {j \in sample.id[1]..Len(datasets) :
        /\ PitchDone(j)
        /\ datasets[j].meta_file_pitch # None
        /\ sample.utt_name \in Keys(datasets[j].meta_file_pitch[1])}

\* C8 Side-file join scope: an accumulated sample holds the duration (pitch)
\* that the latest joined file of its own or a later dataset records for its
\* utt_name; files of earlier datasets never reach it, and with no such file
\* the field is absent as the formatter left it.
C8_JoinScope ==
    \A i \in 1..Len(Accumulated) :
        LET sample == Accumulated[i]
            dh == DurationHits(sample)
            ph == PitchHits(sample)
        IN /\ sample.duration =
                 IF dh = {} THEN None
                 ELSE LoadDurationMetaData(datasets[Largest(dh)].meta_file_dur[1])[sample.utt_name]
           /\ sample.pitch =
                 IF ph = {} THEN None
                 ELSE LoadPitchMetaData(datasets[Largest(ph)].meta_file_pitch[1])[sample.utt_name]

\* two datasets with duration files have been joined: an evaluation sample
\* of the first had its duration overwritten by the second file, a sample of
\* the first that the second file does not name kept its duration, and a
\* sample of the second named by the first file only has none
C8_Witness ==
    /\ lpc = "returned"
    /\ Len(datasets) = 2
    /\ datasets[1].meta_file_dur # None
    /\ datasets[2].meta_file_dur # None
    /\ \E i \in 1..Len(meta_data_eval_all) :
          LET sample == meta_data_eval_all[i]
          IN /\ sample.id[1] = 1
             /\ DurationHits(sample) = {1, 2}
             /\ sample.duration # LoadDurationMetaData(datasets[1].meta_file_dur[1])[sample.utt_name]
    /\ \E i \in 1..Len(Accumulated) :
          /\ Accumulated[i].id[1] = 1
          /\ DurationHits(Accumulated[i]) = {1}
          /\ Accumulated[i].duration # None
    /\ \E i \in 1..Len(Accumulated) :
          /\ Accumulated[i].id[1] = 2
          /\ Accumulated[i].utt_name \in Keys(datasets[1].meta_file_dur[1])
          /\ Accumulated[i].duration = None

\* the step of load_tts_samples that joins an attention-mask file
AttnStep == lpc = "attn" /\ lpc' = "next" /\ Dataset.meta_file_attn_mask # None

AttnMeta == DictOf(Dataset.meta_file_attn_mask[1])

\* what the join does to one sample according to the claim as written:
\* utt_name first, audio_file as the fallback
UttFirstJoin(before, after) ==
    IF before.utt_name \in DOMAIN AttnMeta
    THEN after.alignment_file = Strip(AttnMeta[before.utt_name])
    ELSE IF PathString(before.audio_file) \in DOMAIN AttnMeta
         THEN after.alignment_file = Strip(AttnMeta[PathString(before.audio_file)])
         ELSE after.alignment_file = before.alignment_file

\* audio_file first, utt_name as the fallback; an empty path changes nothing
AudioFirstJoin(before, after) ==
    LET matched == IF PathString(before.audio_file) \in DOMAIN AttnMeta
                   THEN <<Strip(AttnMeta[PathString(before.audio_file)])>>
                   ELSE IF before.utt_name \in DOMAIN AttnMeta
                        THEN <<Strip(AttnMeta[before.utt_name])>>
                        ELSE <<>>
    IN IF matched # <<>> /\ matched[1] # <<>>
       THEN after.alignment_file = matched[1]
       ELSE after.alignment_file = before.alignment_file

\* C9 as written: a sample whose utt_name is a key gets the stripped path
\* recorded for utt_name, also when its audio_file is a key with another
\* path; audio_file is the fallback; a sample matching neither is unchanged.
C9_UttNameFirst ==
    [][AttnStep =>
         /\ \A i \in 1..Len(meta_data_train_all) :
               UttFirstJoin(meta_data_train_all[i], meta_data_train_all'[i])
         /\ \A i \in 1..Len(meta_data_eval_all) :
               UttFirstJoin(meta_data_eval_all[i], meta_data_eval_all'[i])]_vars

\* C9 amended: a sample is matched by its audio_file, and by its utt_name
\* only when audio_file is not a key; alignment_file becomes the stripped
\* path of the matched key when that path is not empty, and is left as it
\* was when the path is empty or neither key matches.
C9_AudioFileFirst ==
    [][AttnStep =>
         /\ \A i \in 1..Len(meta_data_train_all) :
               AudioFirstJoin(meta_data_train_all[i], meta_data_train_all'[i])
         /\ \A i \in 1..Len(meta_data_eval_all) :
               AudioFirstJoin(meta_data_eval_all[i], meta_data_eval_all'[i])]_vars

\* an attention file has just been joined into a sample that the file keys
\* both by audio_file and by utt_name, with different paths
C9_Witness ==
    /\ lpc = "next"
    /\ Dataset.meta_file_attn_mask # None
    /\ \E i \in 1..Len(Accumulated) :
          LET sample == Accumulated[i]
              audio == PathString(sample.audio_file)
          IN /\ audio \in DOMAIN AttnMeta
             /\ sample.utt_name \in DOMAIN AttnMeta
             /\ Strip(AttnMeta[audio]) # Strip(AttnMeta[sample.utt_name])
             /\ sample.alignment_file = Strip(AttnMeta[audio])

=============================================================================
